---- MODULE Spec2Model ----
(***************************************************************************)
(* Order settlement pipeline of the Telegram mini-app backend:             *)
(* OrderService (create_order, update_status, cancel_order,                *)
(* award_loyalty_points, _deduct_stock, _restore_stock), PromocodeService  *)
(* (validate_promocode, calculate_discount, apply_promocode),              *)
(* LoyaltyService (get_or_create_account, earn_points, spend_points, ...)  *)
(* and the payment webhook, over the committed PostgreSQL store.           *)
(*                                                                         *)
(* Money and points are integers counted in thousandths of a currency unit *)
(* (1.00 = 1000), so that the sub-cent values the code computes before the *)
(* NUMERIC(10,2) columns round them are represented exactly.               *)
(***************************************************************************)
EXTENDS Integers, Sequences, FiniteSets, TLC

\* ------------------------------------------------------------------ bounds
MaxOrders == 2
MaxCalls == 4
MaxSessions == 2

\* ------------------------------------------------------- values and helpers
None == "none"
NoneNum == -1
Cent == 10

Min(a, b) == IF a <= b THEN a ELSE b
Max(a, b) == IF a >= b THEN a ELSE b

\* Nearest integer to num/den (den > 0), ties to the even neighbour:
\* Decimal.quantize under the default context (ROUND_HALF_EVEN).
RoundHalfEven(num, den) ==
    LET q == num \div den
        r == num % den
    IN  IF 2 * r < den THEN q
        ELSE IF 2 * r > den THEN q + 1
        ELSE IF q % 2 = 0 THEN q ELSE q + 1

\* x.quantize(Decimal("0.01")) for x = num/den thousandths.
Quantize(num, den) == Cent * RoundHalfEven(num, den * Cent)

\* What a NUMERIC(10,2) column keeps of a value: PostgreSQL rounds numeric
\* to the column scale, ties away from zero.
StoreNumeric(x) ==
    IF x >= 0 THEN Cent * ((x + 5) \div Cent)
    ELSE 0 - Cent * (((0 - x) + 5) \div Cent)

\* ----------------------------------------------------------------- catalog
Slugs == {"shop"}
Users == {"u1"}
Products == {"p1", "p2", "p3"}
Tracked == {"p1", "p2"}
InitStock == [p \in Products |-> IF p = "p1" THEN 2 ELSE IF p = "p2" THEN 1 ELSE 0]

\* Product rows (price, discount fields, categories' surcharges).
Product == [p \in Products |->
    [price |-> IF p = "p1" THEN 10000 ELSE 5000,
     is_active |-> TRUE,
     discount_percentage |-> NoneNum,
     discount_price |-> NoneNum,
     discount_valid_from |-> NoneNum,
     discount_valid_until |-> NoneNum,
     variations |-> IF p = "p3" THEN [size |-> [L |-> [numeric |-> TRUE, value |-> 1000]]] ELSE <<>>,
     surcharges |-> IF p = "p2" THEN <<500>> ELSE <<>>]]

\* Business.loyalty_points_percent in hundredths of a percent (1.00 %).
loyalty_points_percent == 100

\* SAVE: 10 %, once per user. ONCE: 10 %, one use in all, no per-user limit.
Promocodes == {"SAVE", "ONCE"}
Promocode == [c \in Promocodes |->
    [is_active |-> TRUE,
     discount_type |-> "percentage",
     discount_value |-> 1000,
     min_order_amount |-> NoneNum,
     max_discount_amount |-> NoneNum,
     max_uses |-> IF c = "ONCE" THEN 1 ELSE NoneNum,
     max_uses_per_user |-> IF c = "SAVE" THEN 1 ELSE NoneNum,
     valid_from |-> NoneNum,
     valid_until |-> NoneNum]]

Statuses == {"new", "accepted", "preparing", "ready", "cancelled", "completed"}
PaymentStatuses == {"pending", "paid", "failed", "refunded"}

VARIABLES
    stock,      \* Product.stock_quantity of the tracked products
    orders,     \* committed Order rows with their OrderItems, id = index
    usages,     \* committed PromocodeUsage rows
    uses_count, \* Promocode.uses_count
    accounts,   \* committed LoyaltyAccount row per user
    ledger,     \* committed LoyaltyTransaction rows, in insertion order
    result,     \* outcome of the last service call
    calls,      \* number of service calls made
    sessions    \* database sessions of the requests in flight

vars == <<stock, orders, usages, uses_count, accounts, ledger, result, calls, sessions>>
store == <<stock, orders, usages, uses_count, accounts, ledger>>

Sessions == 1..MaxSessions
Idle == [pc |-> "idle"]

NoAccount == [exists |-> FALSE, points_balance |-> 0, total_earned |-> 0, total_spent |-> 0]

Init ==
    /\ stock = InitStock
    /\ orders = <<>>
    /\ usages = {}
    /\ uses_count = [c \in Promocodes |-> 0]
    /\ accounts = [u \in Users |-> NoAccount]
    /\ ledger = <<>>
    /\ result = [op |-> "init", ok |-> TRUE, error |-> "", order |-> 0,
                 args |-> [status |-> "none", payment_status |-> "none", old_status |-> "none",
                           award |-> "none", user |-> "none", points |-> 0,
                           discount |-> 0, tiers |-> <<>>]]
    /\ calls = 0
    /\ sessions = [s \in Sessions |-> Idle]

\* ----------------------------------------------------------------- pricing
\* ProductService.get_discounted_price: discount active only inside its
\* validity window; fixed discount_price wins over the percentage.
get_discounted_price(product, now) ==
    LET is_discount_active ==
            /\ (product.discount_percentage # NoneNum \/ product.discount_price # NoneNum)
            /\ ~(product.discount_valid_from # NoneNum /\ now < product.discount_valid_from)
            /\ ~(product.discount_valid_until # NoneNum /\ now > product.discount_valid_until)
    IN  IF ~is_discount_active THEN product.price
        ELSE IF product.discount_price # NoneNum THEN product.discount_price
        ELSE Quantize(product.price * (10000 - product.discount_percentage), 10000)

RECURSIVE SumSeq(_)
SumSeq(s) == IF s = <<>> THEN 0 ELSE Head(s) + SumSeq(Tail(s))

\* Sum of the category surcharges of a product that are > 0.
category_surcharge(product) ==
    SumSeq(SelectSeq(product.surcharges, LAMBDA x : x > 0))

\* Price deltas of the selected variation options: only keys of the product's
\* variation schema, only values listed under the key, only numeric deltas.
RECURSIVE variation_delta(_, _, _)
variation_delta(variations, selected, keys) ==
    IF keys = {} THEN 0
    ELSE LET k == CHOOSE x \in keys : TRUE
             d == IF /\ k \in DOMAIN variations
                     /\ selected[k] \in DOMAIN variations[k]
                     /\ variations[k][selected[k]].numeric
                  THEN variations[k][selected[k]].value
                  ELSE 0
         IN  d + variation_delta(variations, selected, keys \ {k})

\* One cart line of create_order: product lookup, stock check, unit price.
\* Returns the error of the line, or the OrderItem data and the amount the
\* line adds to total_amount (item_total plus surcharge * quantity).
price_item(item, stk, now) ==
    IF item.product_id \notin Products \/ ~Product[item.product_id].is_active
    THEN [error |-> "product_not_found"]
    ELSE LET product == Product[item.product_id]
             unit_price == get_discounted_price(product, now)
                           + IF product.variations # <<>> /\ item.selected_variations # <<>>
                             THEN variation_delta(product.variations, item.selected_variations,
                                                  DOMAIN item.selected_variations)
                             ELSE 0
             item_total == unit_price * item.quantity
         IN  IF item.product_id \in Tracked /\ stk[item.product_id] < item.quantity
             THEN [error |-> "insufficient_stock"]
             ELSE [error |-> "",
                   row |-> [product_id |-> item.product_id,
                            quantity |-> item.quantity,
                            unit_price |-> unit_price,
                            total_price |-> item_total],
                   amount |-> item_total + category_surcharge(product) * item.quantity]

\* The loop over the cart: first failing line aborts; otherwise the rows and
\* the accumulated total_amount.
RECURSIVE price_items(_, _, _, _)
price_items(items, i, stk, now) ==
    IF i > Len(items) THEN [error |-> "", rows |-> <<>>, total_amount |-> 0]
    ELSE LET line == price_item(items[i], stk, now)
         IN  IF line.error # "" THEN [error |-> line.error, rows |-> <<>>, total_amount |-> 0]
             ELSE LET rest == price_items(items, i + 1, stk, now)
                  IN  [error |-> rest.error,
                       rows |-> IF rest.error = "" THEN <<line.row>> \o rest.rows ELSE <<>>,
                       total_amount |-> line.amount + rest.total_amount]

\* --------------------------------------------------------------- promocode
\* code.upper().strip() on the codes a client submits here.
upper_strip(code) == IF code = " save" THEN "SAVE" ELSE code

\* Number of PromocodeUsage rows of (promocode, user).
user_usage_count(usageRows, code, user) ==
    Cardinality({u \in usageRows : u.promocode = code /\ u.user = user})

\* PromocodeService.validate_promocode: "" when the code is accepted, else
\* the first failing reason.
validate_promocode(code, order_amount, user, now, usesCount, usageRows) ==
    LET c == upper_strip(code)
    IN  IF c \notin Promocodes THEN "promocode_not_found"
        ELSE LET promocode == Promocode[c]
             IN  IF ~promocode.is_active THEN "promocode_inactive"
                 ELSE IF promocode.valid_from # NoneNum /\ now < promocode.valid_from
                      THEN "promocode_not_yet_valid"
                 ELSE IF promocode.valid_until # NoneNum /\ now > promocode.valid_until
                      THEN "promocode_expired"
                 ELSE IF /\ promocode.min_order_amount # NoneNum
                         /\ promocode.min_order_amount # 0
                         /\ order_amount < promocode.min_order_amount
                      THEN "promocode_below_minimum"
                 ELSE IF promocode.max_uses # NoneNum /\ usesCount[c] >= promocode.max_uses
                      THEN "promocode_exhausted"
                 ELSE IF user # None /\ promocode.max_uses_per_user # NoneNum
                      THEN IF user_usage_count(usageRows, c, user) >= promocode.max_uses_per_user
                           THEN "promocode_user_limit"
                           ELSE ""
                 ELSE IF user = None /\ promocode.max_uses_per_user # NoneNum
                      THEN "promocode_requires_auth"
                 ELSE ""

\* PromocodeService.calculate_discount. discount_value of a percentage code
\* is in hundredths of a percent, so the exact discount is
\* order_amount * discount_value / 10000.
calculate_discount(promocode, order_amount) ==
    LET den == 10000
        raw == IF promocode.discount_type = "percentage"
               THEN LET d == order_amount * promocode.discount_value
                    IN  IF promocode.max_discount_amount # NoneNum /\ promocode.max_discount_amount # 0
                        THEN Min(d, promocode.max_discount_amount * den)
                        ELSE d
               ELSE promocode.discount_value * den
    IN  Quantize(Min(raw, order_amount * den), den)

\* ----------------------------------------------------------------- loyalty
\* LoyaltyService.calculate_points_earned, percent in hundredths of a percent.
calculate_points_earned(order_amount, percent) == Quantize(order_amount * percent, 10000)

\* LoyaltyService.calculate_discount_from_points (points_per_rub = 1).
calculate_discount_from_points(points, points_per_rub) == Quantize(points, points_per_rub)

\* LoyaltyService.get_or_create_account on the rows a session sees.
get_or_create_account(accts, user) ==
    IF accts[user].exists THEN accts[user]
    ELSE [exists |-> TRUE, points_balance |-> 0, total_earned |-> 0, total_spent |-> 0]

\* spend_points without its balance check.
spend_points_unchecked(account, points, user, order_id) ==
    IF points <= 0 THEN [error |-> "points_not_positive"]
    ELSE LET balance == account.points_balance - points
         IN  [error |-> "",
              account |-> [account EXCEPT !.points_balance = balance,
                                          !.total_spent = account.total_spent + points],
              transaction |-> [user |-> user, order_id |-> order_id,
                               transaction_type |-> "spent",
                               points |-> 0 - points, balance_after |-> balance]]

\* LoyaltyService.spend_points on the session's account object: the error, or
\* the mutated account and the LoyaltyTransaction it adds.
spend_points(account, points, user, order_id) ==
    IF points <= 0 THEN [error |-> "points_not_positive"]
    ELSE IF account.points_balance < points THEN [error |-> "insufficient_points"]
    ELSE LET balance == account.points_balance - points
         IN  [error |-> "",
              account |-> [account EXCEPT !.points_balance = balance,
                                          !.total_spent = account.total_spent + points],
              transaction |-> [user |-> user, order_id |-> order_id,
                               transaction_type |-> "spent",
                               points |-> 0 - points, balance_after |-> balance]]

\* LoyaltyService.earn_points, likewise.
earn_points(account, points, user, order_id) ==
    IF points <= 0 THEN [error |-> "points_not_positive"]
    ELSE LET balance == account.points_balance + points
         IN  [error |-> "",
              account |-> [account EXCEPT !.points_balance = balance,
                                          !.total_earned = account.total_earned + points],
              transaction |-> [user |-> user, order_id |-> order_id,
                               transaction_type |-> "earned",
                               points |-> points, balance_after |-> balance]]

\* The rows as the NUMERIC(10,2) columns keep them.
stored_account(account) ==
    [exists |-> account.exists,
     points_balance |-> StoreNumeric(account.points_balance),
     total_earned |-> StoreNumeric(account.total_earned),
     total_spent |-> StoreNumeric(account.total_spent)]

stored_transaction(t) ==
    [t EXCEPT !.points = StoreNumeric(t.points), !.balance_after = StoreNumeric(t.balance_after)]

\* ------------------------------------------------------------ create_order
Fail(e) == [error |-> e]

\* The points an order will earn (lines 299-309): a percentage of the total
\* for an identified user, the percentage being the business's
\* loyalty_points_percent when that is truthy and 1.00 otherwise.
points_earned(user, total_amount, business_percent) ==
    IF user # None /\ total_amount > 0
    THEN calculate_points_earned(total_amount,
                                 IF business_percent # 0 THEN business_percent ELSE 100)
    ELSE 0

\* Points earned, the rows to insert and spend_points (lines 299-382): the
\* error of spend_points, or everything the session is about to commit.
plan_order(rows, subtotal_amount, promocode_obj, uses_count_read, user, points, accts, account, total_discount, total_amount, loyalty_points_spent) ==
    LET spending == loyalty_points_spent > 0 /\ user # None
        spent == IF spending THEN spend_points(account, loyalty_points_spent, user, 0)
                 ELSE [error |-> ""]
    IN  IF spent.error # "" THEN Fail(spent.error)
        ELSE [error |-> "",
              order |-> [user |-> user,
                         items |-> rows,
                         subtotal_amount |-> subtotal_amount,
                         discount_amount |-> total_discount,
                         total_amount |-> total_amount,
                         status |-> "new",
                         payment_status |-> "pending",
                         payment |-> None,
                         promocode |-> promocode_obj,
                         loyalty_points_earned |->
                             points_earned(user, total_amount, loyalty_points_percent),
                         loyalty_points_spent |-> loyalty_points_spent],
              uses_count_read |-> uses_count_read,
              account_created |-> points # 0 /\ user # None /\ ~accts[user].exists,
              spending |-> spending,
              account |-> IF spending THEN spent.account ELSE account,
              transaction |-> IF spending THEN spent.transaction ELSE None]

\* total_discount and total_amount (lines 294-297); the points recorded as
\* spent are the points requested whenever the loyalty discount is positive.
plan_total(rows, subtotal_amount, promocode_obj, promocode_discount, uses_count_read, user, points, accts, account, loyalty_discount) ==
    plan_order(rows, subtotal_amount, promocode_obj, uses_count_read, user, points, accts, account,
               promocode_discount + loyalty_discount,
               Max(0, subtotal_amount - (promocode_discount + loyalty_discount)),
               IF loyalty_discount > 0 THEN points ELSE 0)

\* The loyalty block without the 90 % cap.
plan_loyalty_uncapped(rows, subtotal_amount, promocode_obj, promocode_discount, uses_count_read, user, points, accts) ==
    LET loyalty_requested == points # 0 /\ user # None
        amount_after_promocode == subtotal_amount - promocode_discount
    IN  plan_total(rows, subtotal_amount, promocode_obj, promocode_discount, uses_count_read,
                   user, points, accts,
                   IF loyalty_requested THEN get_or_create_account(accts, user) ELSE NoAccount,
                   IF loyalty_requested
                   THEN Min(calculate_discount_from_points(points, 1), amount_after_promocode)
                   ELSE 0)

\* The loyalty block (lines 267-292): the account is fetched or created and
\* the discount is capped at 90 % of the amount left after the promocode.
plan_loyalty(rows, subtotal_amount, promocode_obj, promocode_discount, uses_count_read, user, points, accts) ==
    LET loyalty_requested == points # 0 /\ user # None
        amount_after_promocode == subtotal_amount - promocode_discount
        \* amount_after_promocode is a whole number of cents, so * 0.90 is exact
        max_loyalty_discount == (amount_after_promocode * 9) \div 10
    IN  plan_total(rows, subtotal_amount, promocode_obj, promocode_discount, uses_count_read,
                   user, points, accts,
                   IF loyalty_requested THEN get_or_create_account(accts, user) ELSE NoAccount,
                   IF loyalty_requested
                   THEN Min(Min(calculate_discount_from_points(points, 1), max_loyalty_discount),
                            amount_after_promocode)
                   ELSE 0)

\* The promocode block (lines 245-265).
plan_promocode(rows, subtotal_amount, user, code, points, now, usesCount, usageRows, accts) ==
    LET promo_error == IF code # None
                       THEN validate_promocode(code, subtotal_amount, user, now, usesCount, usageRows)
                       ELSE ""
        promocode_obj == IF code # None THEN upper_strip(code) ELSE None
    IN  IF promo_error # "" THEN Fail(promo_error)
        ELSE plan_loyalty(rows, subtotal_amount, promocode_obj,
                          IF code # None
                          THEN calculate_discount(Promocode[promocode_obj], subtotal_amount)
                          ELSE 0,
                          IF code # None THEN usesCount[promocode_obj] ELSE 0,
                          user, points, accts)

\* The delivery block and the log line after it (lines 126-243). quote is the
\* delivery cost the quote block ends with (0 when no offer was collected or
\* the estimation failed). Line 243 uses the logger that only the delivery
\* block binds.
plan_delivery(priced, delivery_method, customer_address, quote, user, code, points, now, usesCount, usageRows, accts) ==
    IF priced.error # "" THEN Fail(priced.error)
    ELSE IF ~(delivery_method = "delivery" /\ customer_address # None)
         THEN Fail("UnboundLocalError")
    ELSE plan_promocode(priced.rows, priced.total_amount + quote, user, code, points, now,
                        usesCount, usageRows, accts)

\* OrderService.create_order up to the last statement before commit, run on
\* the rows its session reads (stk, usesCount, usageRows, accts): the error
\* that aborts the call, or everything the session is about to commit.
create_order_plan(slug, items, delivery_method, customer_address, quote, user, code, points, now, stk, usesCount, usageRows, accts) ==
    IF slug \notin Slugs THEN Fail("business_not_found")
    ELSE plan_delivery(price_items(items, 1, stk, now), delivery_method, customer_address,
                       quote, user, code, points, now, usesCount, usageRows, accts)

\* The Order and OrderItem rows as their NUMERIC(10,2) columns keep them.
stored_item(row) ==
    [row EXCEPT !.unit_price = StoreNumeric(row.unit_price),
                !.total_price = StoreNumeric(row.total_price)]

stored_order(o) ==
    [o EXCEPT !.items = [i \in DOMAIN o.items |-> stored_item(o.items[i])],
              !.subtotal_amount = StoreNumeric(o.subtotal_amount),
              !.discount_amount = StoreNumeric(o.discount_amount),
              !.total_amount = StoreNumeric(o.total_amount),
              !.loyalty_points_earned = StoreNumeric(o.loyalty_points_earned),
              !.loyalty_points_spent = StoreNumeric(o.loyalty_points_spent)]

\* apply_promocode with an increment made by the database on the committed
\* value (UPDATE ... SET uses_count = uses_count + 1).
apply_promocode_increment(plan, order_id) ==
    IF plan.order.promocode # None
    THEN /\ usages' = usages \cup {[promocode |-> plan.order.promocode,
                                    order_id |-> order_id,
                                    user |-> plan.order.user]}
         /\ uses_count' = [uses_count EXCEPT ![plan.order.promocode] = @ + 1]
    ELSE UNCHANGED <<usages, uses_count>>

\* PromocodeService.apply_promocode at commit: one PromocodeUsage row, and
\* uses_count set to the value the session read plus one.
apply_promocode(plan, order_id) ==
    IF plan.order.promocode # None
    THEN /\ usages' = usages \cup {[promocode |-> plan.order.promocode,
                                    order_id |-> order_id,
                                    user |-> plan.order.user]}
         /\ uses_count' = [uses_count EXCEPT ![plan.order.promocode] = plan.uses_count_read + 1]
    ELSE UNCHANGED <<usages, uses_count>>

\* The loyalty rows create_order commits: the account it created, the two
\* columns spend_points changed, and the 'spent' LoyaltyTransaction.
commit_loyalty(plan, order_id) ==
    LET user == plan.order.user
    IN  IF plan.spending
        THEN /\ accounts' = [accounts EXCEPT ![user] =
                    [exists |-> TRUE,
                     points_balance |-> StoreNumeric(plan.account.points_balance),
                     total_earned |-> IF plan.account_created THEN 0 ELSE @.total_earned,
                     total_spent |-> StoreNumeric(plan.account.total_spent)]]
             /\ ledger' = Append(ledger, stored_transaction(
                    [plan.transaction EXCEPT !.order_id = order_id]))
        ELSE /\ accounts' = IF plan.account_created
                            THEN [accounts EXCEPT ![user] = stored_account(plan.account)]
                            ELSE accounts
             /\ ledger' = ledger

\* db.commit() of create_order: all rows of the plan become visible at once.
commit_order(plan) ==
    LET order_id == Len(orders) + 1
    IN  /\ orders' = Append(orders, stored_order(plan.order))
        /\ apply_promocode(plan, order_id)
        /\ commit_loyalty(plan, order_id)
        /\ UNCHANGED stock

\* What a call leaves for its caller and in the log: the operation, its
\* error ("" when it returned normally), the order it concerned, and args:
\* the status arguments, the old_status the handler read, whether
\* award_loyalty_points ran and what it returned, and the user, the points
\* to spend and the total_discount (logged by line 296) of a checkout, and
\* tiers: what the delivery estimation of the call was answered (<<>> when
\* the model fixes the delivery cost instead).
NoArgs == [status |-> None, payment_status |-> None, old_status |-> None,
           award |-> None, user |-> None, points |-> 0, discount |-> 0, tiers |-> <<>>]

Response(op, error, order, args) ==
    [op |-> op, ok |-> error = "", error |-> error, order |-> order, args |-> args]

\* The end of a create_order call whose get_or_create_account commits the
\* account it creates instead of flushing it.
finish_create_order_autocommit(plan, args) ==
    /\ calls' = calls + 1
    /\ UNCHANGED sessions
    /\ IF plan.error = ""
       THEN /\ commit_order(plan)
            /\ result' = Response("create_order", "", Len(orders) + 1,
                                  [args EXCEPT !.discount = plan.order.discount_amount])
       ELSE /\ accounts' = IF plan.error = "insufficient_points"
                           THEN [accounts EXCEPT ![args.user] =
                                    stored_account(get_or_create_account(accounts, args.user))]
                           ELSE accounts
            /\ UNCHANGED <<stock, orders, usages, uses_count, ledger>>
            /\ result' = Response("create_order", plan.error, 0,
                                  args)

\* The end of a create_order call run alone in its session: commit, or the
\* exception that leaves the session to be closed without a commit.
finish_create_order(plan, args) ==
    /\ calls' = calls + 1
    /\ UNCHANGED sessions
    /\ IF plan.error = ""
       THEN /\ commit_order(plan)
            /\ result' = Response("create_order", "", Len(orders) + 1,
                                  [args EXCEPT !.discount = plan.order.discount_amount])
       ELSE /\ UNCHANGED store
            /\ result' = Response("create_order", plan.error, 0,
                                  args)

\* One create_order call run alone in its session (get_db closes the session
\* without a commit when the service raises).
create_order(slug, items, delivery_method, customer_address, quote, user, code, points, now) ==
    finish_create_order(
        create_order_plan(slug, items, delivery_method, customer_address, quote, user,
                          code, points, now, stock, uses_count, usages, accounts),
        [NoArgs EXCEPT !.user = user, !.points = points])

\* ------------------------------------------------------------------- stock
\* _deduct_stock without the sufficiency check.
RECURSIVE deduct_stock_unchecked(_, _, _)
deduct_stock_unchecked(items, i, stk) ==
    IF i > Len(items) THEN [error |-> "", stock |-> stk]
    ELSE LET item == items[i]
         IN  IF item.product_id \in Tracked
             THEN deduct_stock_unchecked(items, i + 1,
                      [stk EXCEPT ![item.product_id] = @ - item.quantity])
             ELSE deduct_stock_unchecked(items, i + 1, stk)

\* OrderService._deduct_stock over the order's items, on the session's
\* Product objects: stops at the first item whose tracked stock is too low.
RECURSIVE deduct_stock(_, _, _)
deduct_stock(items, i, stk) ==
    IF i > Len(items) THEN [error |-> "", stock |-> stk]
    ELSE LET item == items[i]
         IN  IF item.product_id \in Tracked
             THEN IF stk[item.product_id] < item.quantity
                  THEN [error |-> "insufficient_stock", stock |-> stk]
                  ELSE deduct_stock(items, i + 1,
                           [stk EXCEPT ![item.product_id] = @ - item.quantity])
             ELSE deduct_stock(items, i + 1, stk)

\* _restore_stock that returns nothing to the stock.
restore_stock_none(items, i, stk) == stk

\* OrderService._restore_stock.
RECURSIVE restore_stock(_, _, _)
restore_stock(items, i, stk) ==
    IF i > Len(items) THEN stk
    ELSE LET item == items[i]
         IN  IF item.product_id \in Tracked
             THEN restore_stock(items, i + 1, [stk EXCEPT ![item.product_id] = @ + item.quantity])
             ELSE restore_stock(items, i + 1, stk)

\* ------------------------------------------------------ loyalty accrual
\* 'earned' LoyaltyTransaction rows of an order.
earned_rows(rows, order_id) ==
    {i \in DOMAIN rows : rows[i].order_id = order_id /\ rows[i].transaction_type = "earned"}

\* award_loyalty_points without the look-up of an existing 'earned' row.
award_loyalty_points_unguarded(order, order_id, accts, rows) ==
    LET unchanged == [awarded |-> FALSE, error |-> "", accounts |-> accts, ledger |-> rows]
        points_to_award == order.loyalty_points_earned
    IN  IF order.user = None THEN unchanged
        ELSE IF points_to_award <= 0 THEN unchanged
        ELSE LET account == get_or_create_account(accts, order.user)
                 earned == earn_points(account, points_to_award, order.user, order_id)
             IN  [awarded |-> TRUE, error |-> "",
                  accounts |-> [accts EXCEPT ![order.user] = stored_account(earned.account)],
                  ledger |-> Append(rows, stored_transaction(earned.transaction))]

\* OrderService.award_loyalty_points on the rows the session sees: whether
\* it awarded, and the account and ledger it commits. scalar_one_or_none
\* raises when more than one 'earned' row exists.
award_loyalty_points(order, order_id, accts, rows) ==
    LET unchanged == [awarded |-> FALSE, error |-> "", accounts |-> accts, ledger |-> rows]
        points_to_award == order.loyalty_points_earned
    IN  IF order.user = None THEN unchanged
        ELSE IF Cardinality(earned_rows(rows, order_id)) > 1
             THEN [unchanged EXCEPT !.error = "MultipleResultsFound"]
        ELSE IF earned_rows(rows, order_id) # {} THEN unchanged
        ELSE IF points_to_award <= 0 THEN unchanged
        ELSE LET account == get_or_create_account(accts, order.user)
                 earned == earn_points(account, points_to_award, order.user, order_id)
             IN  [awarded |-> TRUE, error |-> "",
                  accounts |-> [accts EXCEPT ![order.user] = stored_account(earned.account)],
                  ledger |-> Append(rows, stored_transaction(earned.transaction))]

\* What the caller of award_loyalty_points gets: its return value, or the
\* exception it logs and swallows.
AwardOutcome(award) ==
    IF award.error # "" THEN "error" ELSE IF award.awarded THEN "true" ELSE "false"

\* ----------------------------------------------------------- update_status
\* OrderService.update_status run alone in its session.
update_status(order_id, status, payment_status) ==
    /\ calls' = calls + 1
    /\ UNCHANGED sessions
    /\ IF order_id \notin DOMAIN orders
       THEN /\ UNCHANGED store
            /\ result' = Response("update_status", "not_found", order_id,
                                  [NoArgs EXCEPT !.status = status,
                                                 !.payment_status = payment_status])
       ELSE
        LET order == orders[order_id]
            old_status == order.status
            deducted == IF status # None /\ old_status # "accepted" /\ status = "accepted"
                        THEN deduct_stock(order.items, 1, stock)
                        ELSE [error |-> "", stock |-> stock]
            stock1 == IF status # None /\ old_status \in {"new", "accepted"} /\ status = "cancelled"
                      THEN restore_stock(order.items, 1, deducted.stock)
                      ELSE deducted.stock
            order1 == IF status # None THEN [order EXCEPT !.status = status] ELSE order
            was_paid == order1.payment_status = "paid"
            order2 == IF payment_status # None
                      THEN [order1 EXCEPT !.payment_status = payment_status]
                      ELSE order1
            awarding == payment_status = "paid" /\ ~was_paid
            award == IF awarding
                     THEN award_loyalty_points(order2, order_id, accounts, ledger)
                     ELSE [awarded |-> FALSE, error |-> "", accounts |-> accounts, ledger |-> ledger]
            error == IF status # None /\ status \notin Statuses THEN "invalid_status"
                     ELSE IF deducted.error # "" THEN deducted.error
                     ELSE IF payment_status # None /\ payment_status \notin PaymentStatuses
                          THEN "invalid_payment_status"
                     ELSE ""
        IN  /\ result' = Response("update_status", error, order_id,
                                  [status |-> status, payment_status |-> payment_status,
                                   old_status |-> old_status,
                                   award |-> IF error # "" \/ ~awarding THEN None
                                             ELSE AwardOutcome(award),
                                   user |-> None, points |-> 0, discount |-> 0,
                                   tiers |-> <<>>])
            /\ IF error # ""
               THEN UNCHANGED store
               ELSE /\ orders' = [orders EXCEPT ![order_id] = order2]
                    /\ stock' = stock1
                    /\ accounts' = award.accounts
                    /\ ledger' = award.ledger
                    /\ UNCHANGED <<usages, uses_count>>

\* ------------------------------------------------------------ cancel_order
\* OrderService.cancel_order run alone in its session.
cancel_order(order_id) ==
    /\ calls' = calls + 1
    /\ UNCHANGED sessions
    /\ IF order_id \notin DOMAIN orders
       THEN /\ UNCHANGED store
            /\ result' = Response("cancel_order", "not_found", order_id, NoArgs)
       ELSE
        LET order == orders[order_id]
            old_status == order.status
        IN  IF old_status \notin {"new", "accepted"}
            THEN /\ UNCHANGED store
                 /\ result' = Response("cancel_order", "cannot_cancel", order_id,
                                       [NoArgs EXCEPT !.old_status = old_status])
            ELSE /\ orders' = [orders EXCEPT ![order_id].status = "cancelled"]
                 /\ stock' = IF old_status \in {"new", "accepted"}
                             THEN restore_stock(order.items, 1, stock)
                             ELSE stock
                 /\ UNCHANGED <<usages, uses_count, accounts, ledger>>
                 /\ result' = Response("cancel_order", "", order_id,
                                       [NoArgs EXCEPT !.old_status = old_status])

\* ----------------------------------------------------------------- payment
\* PaymentService.create_yookassa_payment for an order without a Payment row:
\* the provider answered 200 and the Payment row is committed with the
\* provider's status.
create_yookassa_payment(order_id) ==
    /\ order_id \in DOMAIN orders
    /\ orders[order_id].payment = None
    /\ calls' = calls + 1
    /\ UNCHANGED sessions
    /\ orders' = [orders EXCEPT ![order_id].payment = "pending"]
    /\ UNCHANGED <<stock, usages, uses_count, accounts, ledger>>
    /\ result' = Response("create_yookassa_payment", "", order_id, NoArgs)

\* PaymentService.process_yookassa_webhook for the Payment row of an order,
\* with the event type and the status of the payment object.
process_yookassa_webhook(order_id, event_type, new_status) ==
    /\ calls' = calls + 1
    /\ UNCHANGED sessions
    /\ IF event_type # "payment.succeeded"
          \/ order_id \notin DOMAIN orders
          \/ (order_id \in DOMAIN orders /\ orders[order_id].payment = None)
       THEN /\ UNCHANGED store
            /\ result' = Response("process_yookassa_webhook", "ignored", order_id, NoArgs)
       ELSE
        LET order == [orders[order_id] EXCEPT !.payment = new_status]
            order1 == IF new_status = "succeeded" THEN [order EXCEPT !.payment_status = "paid"]
                      ELSE IF new_status = "canceled" THEN [order EXCEPT !.payment_status = "failed"]
                      ELSE order
            award == IF new_status = "succeeded"
                     THEN award_loyalty_points(order1, order_id, accounts, ledger)
                     ELSE [awarded |-> FALSE, error |-> "", accounts |-> accounts, ledger |-> ledger]
        IN  /\ orders' = [orders EXCEPT ![order_id] = order1]
            /\ accounts' = award.accounts
            /\ ledger' = award.ledger
            /\ UNCHANGED <<stock, usages, uses_count>>
            /\ result' = Response("process_yookassa_webhook", "", order_id,
                                  [NoArgs EXCEPT !.payment_status = order1.payment_status,
                                                 !.award = IF new_status = "succeeded"
                                                           THEN AwardOutcome(award) ELSE None])

\* ------------------------------------------------------------------ inputs
Line(p, q) == [product_id |-> p, quantity |-> q, selected_variations |-> <<>>]
Carts == {<<Line("p1", 1), Line("p3", 1), Line("p2", 1)>>, <<Line("p2", 1)>>, <<Line("p1", 1)>>,
          <<Line("p2", 2)>>, <<Line("px", 1)>>}
SlugInputs == {"shop", "nope"}
UserInputs == Users \cup {None}
CodeInputs == {None, " save", "NOPE"}
PointRequests == {0, 15, 80000}
\* delivery_method and customer_address of a request, and the delivery cost
\* the quote block ends with when it runs
DeliveryInputs == {<<"pickup", None, 0>>, <<"delivery", None, 0>>,
                   <<"delivery", "addr", 0>>, <<"delivery", "addr", 2000>>}
Quoted == {<<"delivery", "addr", 0>>}
Times == {1}
StatusInputs == Statuses \cup {None, "bogus"}
PaymentStatusInputs == PaymentStatuses \cup {None, "bogus"}
WebhookEvents == {"payment.succeeded", "payment.canceled"}
WebhookStatuses == {"succeeded", "canceled", "pending"}

\* ----------------------------------------------------------------- actions
\* The requests made of the given components.
Requests(slugs, carts, deliveries, users, codes, points) ==
    [slug : slugs, items : carts, delivery : deliveries, user : users, code : codes,
     points : points]

CreateOrderFrom(requests) ==
    /\ calls < MaxCalls
    /\ Len(orders) < MaxOrders
    /\ \E r \in requests, now \in Times :
          create_order(r.slug, r.items, r.delivery[1], r.delivery[2], r.delivery[3],
                       r.user, r.code, r.points, now)

CreateOrderWith(slugs, carts, deliveries, users, codes, points) ==
    CreateOrderFrom(Requests(slugs, carts, deliveries, users, codes, points))

UpdateStatusWith(statuses, payment_statuses) ==
    /\ calls < MaxCalls
    /\ \E order_id \in 1..MaxOrders, status \in statuses, payment_status \in payment_statuses :
          update_status(order_id, status, payment_status)

CreateOrder ==
    CreateOrderWith(SlugInputs, Carts, DeliveryInputs, UserInputs, CodeInputs, PointRequests)

UpdateStatus == UpdateStatusWith(StatusInputs, PaymentStatusInputs)

CancelOrder ==
    /\ calls < MaxCalls
    /\ \E order_id \in 1..MaxOrders : cancel_order(order_id)

CreatePayment ==
    /\ calls < MaxCalls
    /\ \E order_id \in 1..MaxOrders : create_yookassa_payment(order_id)

Webhook ==
    /\ calls < MaxCalls
    /\ \E order_id \in 1..MaxOrders, event_type \in WebhookEvents, new_status \in WebhookStatuses :
          process_yookassa_webhook(order_id, event_type, new_status)

Next == CreateOrder \/ UpdateStatus \/ CancelOrder \/ CreatePayment \/ Webhook

Spec == Init /\ [][Next]_vars

\* Order status machine and stock: guest checkouts, status transitions and
\* cancellations.
CreateOrderStatus ==
    CreateOrderWith(Slugs, Carts, Quoted, {None}, {None}, {0})

UpdateStatusOnly == UpdateStatusWith(StatusInputs, {None})

NextStatus == CreateOrderStatus \/ UpdateStatusOnly \/ CancelOrder

SpecStatus == Init /\ [][NextStatus]_vars

\* The same without any cancellation.
UpdateStatusNoCancel == UpdateStatusWith(StatusInputs \ {"cancelled"}, {None})

NextAccept == CreateOrderStatus \/ UpdateStatusNoCancel

SpecAccept == Init /\ [][NextAccept]_vars

\* Loyalty ledger: checkouts of an identified user that redeem points, payment
\* status updates and payment webhooks.
CreateOrderLoyalty ==
    CreateOrderWith(Slugs, {<<Line("p3", 1)>>}, Quoted, Users, {None}, PointRequests)

UpdatePaymentStatus == UpdateStatusWith({None}, PaymentStatusInputs)

NextLoyalty == CreateOrderLoyalty \/ UpdatePaymentStatus \/ CreatePayment \/ Webhook

SpecLoyalty == Init /\ [][NextLoyalty]_vars

\* Checkout with every failure mode, and payment confirmation. The requests
\* that fail before the cart, the delivery or the discounts are looked at are
\* not multiplied by the inputs they never read.
ValidCarts == {<<Line("p1", 1), Line("p3", 1), Line("p2", 1)>>, <<Line("p2", 1)>>}
CheckoutRequests ==
    Requests({"nope"}, {<<Line("p2", 1)>>}, Quoted, {None}, {None}, {0})
    \cup Requests(Slugs, {<<Line("p2", 2)>>, <<Line("px", 1)>>}, Quoted, {None}, {None}, {0})
    \cup Requests(Slugs, {<<Line("p2", 1)>>}, {<<"pickup", None, 0>>, <<"delivery", None, 0>>},
                  {None}, {None}, {0})
    \cup Requests(Slugs, ValidCarts, {<<"delivery", "addr", 0>>, <<"delivery", "addr", 2000>>},
                  UserInputs, CodeInputs, PointRequests)

CreateOrderCheckout == CreateOrderFrom(CheckoutRequests)

MarkPaid == UpdateStatusWith({None}, {"paid"})

NextCheckout == CreateOrderCheckout \/ MarkPaid

SpecCheckout == Init /\ [][NextCheckout]_vars

\* Redemption of points: a large paid order funds the account, later
\* checkouts of the user ask to spend points, with and without a promocode.
RedeemPoints == {-1000, 0, 5000}
RedeemRequests ==
    Requests(Slugs, {<<Line("p3", 100)>>}, Quoted, Users, {None}, {0})
    \cup Requests(Slugs, {<<Line("p2", 1)>>}, Quoted, Users, {None, " save"}, RedeemPoints)

CreateOrderRedeem == CreateOrderFrom(RedeemRequests)

NextRedeem == CreateOrderRedeem \/ MarkPaid

SpecRedeem == Init /\ [][NextRedeem]_vars

\* Checkouts whose cart lines carry any integer quantity (OrderItemRequest
\* declares quantity: int without a constraint), and acceptance of the orders.
Quantities == {-1, 0, 1, 2}

CreateOrderQuantity ==
    CreateOrderWith(Slugs, {<<Line(p, q)>> : p \in Tracked, q \in Quantities}, Quoted,
                    {None}, {None}, {0})

AcceptOrder == UpdateStatusWith({"accepted"}, {None})

NextQuantity == CreateOrderQuantity \/ AcceptOrder

SpecQuantity == Init /\ [][NextQuantity]_vars

\* ------------------------------------------------------------- orders API
\* A line of CreateOrderRequest.items with its selected_variations.
OrderItemRequest(p, q, selected) ==
    [product_id |-> p, quantity |-> q, selected_variations |-> selected]

\* The dicts the endpoint builds for the service: product_id, quantity and
\* note of every line.
items_data(request_items) ==
    [i \in DOMAIN request_items |->
        Line(request_items[i].product_id, request_items[i].quantity)]

\* POST /{business_slug}/orders: the endpoint converts the lines and calls
\* OrderService.create_order. The request's lines are kept with the outcome.
post_order(slug, request_items, delivery_method, customer_address, quote, user, code, points, now) ==
    finish_create_order(
        create_order_plan(slug, items_data(request_items), delivery_method, customer_address,
                          quote, user, code, points, now, stock, uses_count, usages, accounts),
        [NoArgs EXCEPT !.user = user, !.points = points] @@ [request_items |-> request_items])

Selections == {<<>>, [size |-> "L"], [size |-> "XL"], [colour |-> "red"]}

PostOrder ==
    /\ calls < MaxCalls
    /\ Len(orders) < MaxOrders
    /\ \E p \in {"p2", "p3"}, q \in {1, 2}, selected \in Selections, d \in Quoted, now \in Times :
          post_order("shop", <<OrderItemRequest(p, q, selected)>>, d[1], d[2], d[3],
                     None, None, 0, now)

NextApi == PostOrder \/ AcceptOrder

SpecApi == Init /\ [][NextApi]_vars

\* ------------------------------------------------- concurrent create_order
\* The session's state after its reads and flushes: nothing is visible to
\* the other sessions yet.
flush_create_order(s, plan, user, points) ==
    /\ calls' = calls + 1
    /\ UNCHANGED store
    /\ IF plan.error = ""
       THEN /\ sessions' = [sessions EXCEPT ![s] = [pc |-> "flushed", plan |-> plan]]
            /\ UNCHANGED result
       ELSE /\ UNCHANGED sessions
            /\ result' = Response("create_order", plan.error, 0,
                                  [NoArgs EXCEPT !.user = user, !.points = points])

\* create_order of a request whose session runs concurrently with others
\* (PostgreSQL READ COMMITTED): the session reads and flushes, and its rows
\* become visible to the other sessions when it commits.
begin_create_order(s, slug, items, delivery_method, customer_address, quote, user, code, points, now) ==
    /\ sessions[s].pc = "idle"
    /\ flush_create_order(s,
           create_order_plan(slug, items, delivery_method, customer_address, quote, user,
                             code, points, now, stock, uses_count, usages, accounts),
           user, points)

\* The session's commit. The unique index on (business_id, user_telegram_id)
\* rejects a second LoyaltyAccount row of the same user.
end_create_order(s) ==
    LET plan == sessions[s].plan
    IN  /\ sessions[s].pc = "flushed"
        /\ sessions' = [sessions EXCEPT ![s] = Idle]
        /\ UNCHANGED calls
        /\ IF plan.account_created /\ accounts[plan.order.user].exists
           THEN /\ UNCHANGED store
                /\ result' = Response("create_order", "IntegrityError", 0, NoArgs)
           ELSE /\ commit_order(plan)
                /\ result' = Response("create_order", "", Len(orders) + 1, NoArgs)

BeginCreateOrder ==
    /\ calls < MaxCalls
    /\ Len(orders) < MaxOrders
    /\ \E s \in Sessions, items \in {<<Line("p3", 1)>>, <<Line("p2", 1)>>}, d \in Quoted,
          user \in Users, code \in {None, " save"}, now \in Times :
          begin_create_order(s, "shop", items, d[1], d[2], d[3], user, code, 0, now)

EndCreateOrder == \E s \in Sessions : end_create_order(s)

NextConcurrent == BeginCreateOrder \/ EndCreateOrder

SpecConcurrent == Init /\ [][NextConcurrent]_vars

\* Concurrent checkouts with the promocodes that carry a limit.
BeginCreateOrderPromocode ==
    /\ calls < MaxCalls
    /\ Len(orders) < MaxOrders
    /\ \E s \in Sessions, items \in {<<Line("p3", 1)>>, <<Line("p2", 1)>>}, d \in Quoted,
          user \in Users, code \in {" save", "ONCE"}, now \in Times :
          begin_create_order(s, "shop", items, d[1], d[2], d[3], user, code, 0, now)

NextPromocode == BeginCreateOrderPromocode \/ EndCreateOrder

SpecPromocode == Init /\ [][NextPromocode]_vars

\* Concurrent checkouts that spend loyalty points. The user first earns a
\* balance of 5.00 with a paid order of 500.00; the spending checkouts come
\* on top of the earning orders.
SpendPoints == {2000, 3000}

EarnPoints == CreateOrderWith(Slugs, {<<Line("p3", 100)>>}, Quoted, Users, {None}, {0})

BeginCreateOrderSpend ==
    /\ calls < MaxCalls
    /\ Len(orders) < MaxOrders + 1
    /\ \E s \in Sessions, d \in Quoted, user \in Users, points \in SpendPoints, now \in Times :
          begin_create_order(s, "shop", <<Line("p2", 1)>>, d[1], d[2], d[3], user, None,
                             points, now)

NextSpend == EarnPoints \/ MarkPaid \/ BeginCreateOrderSpend \/ EndCreateOrder

SpecSpend == Init /\ [][NextSpend]_vars

\* ------------------------------------------------- concurrent update_status
\* update_status of a request whose session runs concurrently with others:
\* what the session has read, decided and flushed when it reaches its commit.
\* The rows are read from the committed state; the ORM writes back the
\* columns the session changed, with the values the session computed.
update_status_plan(order_id, status, payment_status) ==
    LET order == orders[order_id]
        old_status == order.status
        deducted == IF status # None /\ old_status # "accepted" /\ status = "accepted"
                    THEN deduct_stock(order.items, 1, stock)
                    ELSE [error |-> "", stock |-> stock]
        stock1 == IF status # None /\ old_status \in {"new", "accepted"} /\ status = "cancelled"
                  THEN restore_stock(order.items, 1, deducted.stock)
                  ELSE deducted.stock
        awarding == payment_status = "paid" /\ order.payment_status # "paid"
        award == IF awarding
                 THEN award_loyalty_points(order, order_id, accounts, ledger)
                 ELSE [awarded |-> FALSE, error |-> "", accounts |-> accounts, ledger |-> ledger]
    IN  [error |-> IF status # None /\ status \notin Statuses THEN "invalid_status"
                   ELSE IF deducted.error # "" THEN deducted.error
                   ELSE IF payment_status # None /\ payment_status \notin PaymentStatuses
                        THEN "invalid_payment_status"
                   ELSE "",
         order_id |-> order_id,
         status |-> status,
         payment_status |-> payment_status,
         old_status |-> old_status,
         stock_written |-> {p \in Tracked : stock1[p] # stock[p]},
         stock |-> stock1,
         awarding |-> awarding,
         award |-> AwardOutcome(award),
         account_created |-> award.awarded /\ ~accounts[order.user].exists,
         account |-> IF award.awarded THEN award.accounts[order.user] ELSE NoAccount,
         transaction |-> IF award.awarded THEN award.ledger[Len(award.ledger)] ELSE None]

\* The arguments and outcome of an update_status call, for its response.
update_status_args(plan, award) ==
    [NoArgs EXCEPT !.status = plan.status, !.payment_status = plan.payment_status,
                   !.old_status = plan.old_status, !.award = award]

\* The session after its reads and flushes, or the ValueError of the call.
flush_update_status(s, plan) ==
    /\ calls' = calls + 1
    /\ UNCHANGED store
    /\ IF plan.error = ""
       THEN /\ sessions' = [sessions EXCEPT ![s] = [pc |-> "updating", plan |-> plan]]
            /\ UNCHANGED result
       ELSE /\ UNCHANGED sessions
            /\ result' = Response("update_status", plan.error, plan.order_id,
                                  update_status_args(plan, None))

begin_update_status(s, order_id, status, payment_status) ==
    /\ sessions[s].pc = "idle"
    /\ order_id \in DOMAIN orders
    /\ flush_update_status(s, update_status_plan(order_id, status, payment_status))

\* The session's commit. The INSERT of a LoyaltyAccount row that another
\* session has committed meanwhile fails on the unique index inside
\* award_loyalty_points: the flush rolls the transaction back, update_status
\* swallows the exception, and its commit raises PendingRollbackError.
commit_update_status(s, plan, user) ==
    /\ sessions' = [sessions EXCEPT ![s] = Idle]
    /\ UNCHANGED <<calls, usages, uses_count>>
    /\ IF plan.account_created /\ accounts[user].exists
       THEN /\ UNCHANGED <<stock, orders, accounts, ledger>>
            /\ result' = Response("update_status", "PendingRollbackError", plan.order_id,
                                  update_status_args(plan, "error"))
       ELSE /\ orders' = [orders EXCEPT
                  ![plan.order_id].status = IF plan.status # None THEN plan.status ELSE @,
                  ![plan.order_id].payment_status =
                      IF plan.payment_status # None THEN plan.payment_status ELSE @]
            /\ stock' = [p \in Products |->
                            IF p \in plan.stock_written THEN plan.stock[p] ELSE stock[p]]
            /\ accounts' = IF plan.award # "true" THEN accounts
                           ELSE IF plan.account_created
                                THEN [accounts EXCEPT ![user] = plan.account]
                           ELSE [accounts EXCEPT
                                    ![user].points_balance = plan.account.points_balance,
                                    ![user].total_earned = plan.account.total_earned]
            /\ ledger' = IF plan.award = "true" THEN Append(ledger, plan.transaction) ELSE ledger
            /\ result' = Response("update_status", "", plan.order_id,
                                  update_status_args(plan, IF plan.awarding THEN plan.award
                                                           ELSE None))

end_update_status(s) ==
    /\ sessions[s].pc = "updating"
    /\ commit_update_status(s, sessions[s].plan, orders[sessions[s].plan.order_id].user)

\* Checkouts of an identified user, then acceptances and payment
\* confirmations of the orders in concurrent sessions.
CreateOrderUser ==
    CreateOrderWith(Slugs, {<<Line("p1", 1)>>, <<Line("p2", 1)>>}, Quoted, Users, {None}, {0})

BeginUpdateStatus ==
    /\ calls < MaxCalls
    /\ \E s \in Sessions, order_id \in 1..MaxOrders,
          u \in {<<"accepted", None>>, <<None, "paid">>} :
          begin_update_status(s, order_id, u[1], u[2])

EndUpdateStatus == \E s \in Sessions : end_update_status(s)

NextUpdates == CreateOrderUser \/ BeginUpdateStatus \/ EndUpdateStatus

SpecUpdates == Init /\ [][NextUpdates]_vars

\* --------------------------------------------------------------- retention
\* An order row that delete_old_orders removed: its id stays taken, the row
\* and its line items are gone.
Deleted(order) == [order EXCEPT !.status = "deleted", !.items = <<>>]

\* The rows whose foreign key points to the order (promocode_usages.order_id,
\* loyalty_transactions.order_id, payments.order_id; none has ON DELETE).
references(o) ==
    \/ \E u \in usages : u.order_id = o
    \/ \E i \in DOMAIN ledger : ledger[i].order_id = o
    \/ orders[o].payment # None

\* OrderService.delete_old_orders; old holds the orders whose updated_at is
\* before the cutoff. OrderItems are deleted, then the Order rows; the DELETE
\* of an order that is still referenced violates the foreign key, the call
\* raises and its transaction is rolled back.
delete_old_orders(old) ==
    /\ calls' = calls + 1
    /\ UNCHANGED <<sessions, stock, usages, uses_count, accounts, ledger>>
    /\ orders' = IF \E o \in old : orders[o].status \in {"cancelled", "completed"} /\ references(o)
                 THEN orders
                 ELSE [o \in DOMAIN orders |->
                          IF o \in old /\ orders[o].status \in {"cancelled", "completed"}
                          THEN Deleted(orders[o]) ELSE orders[o]]
    /\ result' = Response("delete_old_orders",
                          IF \E o \in old : /\ orders[o].status \in {"cancelled", "completed"}
                                            /\ references(o)
                          THEN "IntegrityError" ELSE "",
                          0,
                          NoArgs @@ [orders_to_delete |->
                                        {o \in old : orders[o].status \in {"cancelled", "completed"}}])

Live == {o \in DOMAIN orders : orders[o].status # "deleted"}

CreateOrderRetention ==
    CreateOrderWith(Slugs, {<<Line("p3", 1)>>}, Quoted, UserInputs, {None, " save"}, {0})

\* An admin closes an order: completed and paid, completed, or cancelled.
CloseOrder ==
    /\ calls < MaxCalls
    /\ \E order_id \in Live, u \in {<<"completed", "paid">>, <<"completed", None>>, <<"cancelled", None>>} :
          update_status(order_id, u[1], u[2])

CreatePaymentLive ==
    /\ calls < MaxCalls
    /\ \E order_id \in Live : create_yookassa_payment(order_id)

DeleteOldOrders ==
    /\ calls < MaxCalls
    /\ \E old \in SUBSET Live : delete_old_orders(old)

NextRetention == CreateOrderRetention \/ CloseOrder \/ CreatePaymentLive \/ DeleteOldOrders

SpecRetention == Init /\ [][NextRetention]_vars

\* ------------------------------------------------------- business settings
\* loyalty_points_percent values an owner sends (hundredths of a percent),
\* and order totals.
PercentInputs == {-100, 0, 1, 100, 250, 5000, 10000, 10100}
TotalAmounts == {0, 12500} \cup {k * 1230 : k \in 1..9}

\* PATCH of the business: a percent outside 0..100 is rejected, any other is
\* stored as it is (the inputs are whole hundredths, which NUMERIC(5,2) keeps).
update_business(percent) ==
    IF percent < 0 \/ percent > 10000
    THEN [error |-> "HTTP_400", loyalty_points_percent |-> loyalty_points_percent]
    ELSE [error |-> "", loyalty_points_percent |-> percent]

\* The owner sets the accrual percent.
UpdateBusiness ==
    \E percent \in PercentInputs :
        /\ result' = [op |-> "update_business",
                      ok |-> update_business(percent).error = "",
                      error |-> update_business(percent).error, order |-> 0,
                      args |-> [percent |-> update_business(percent).loyalty_points_percent,
                                user |-> None, total_amount |-> 0, earned |-> 0]]
        /\ UNCHANGED <<store, calls, sessions>>

\* create_order computes the points of an order of the business as it was
\* last configured.
CalculatePointsEarned ==
    /\ result.op \in {"update_business", "points_earned"}
    /\ \E user \in UserInputs, total_amount \in TotalAmounts :
        result' = [result EXCEPT
            !.op = "points_earned", !.ok = TRUE, !.error = "",
            !.args = [percent |-> result.args.percent, user |-> user,
                      total_amount |-> total_amount,
                      earned |-> points_earned(user, total_amount, result.args.percent)]]
    /\ UNCHANGED <<store, calls, sessions>>

NextEarned == UpdateBusiness \/ CalculatePointsEarned
SpecEarned == Init /\ [][NextEarned]_vars

\* ---------------------------------------------------------- catalog edits
\* The discount fields an admin can send to ProductService.update (NoneNum:
\* field not sent). The request model and the service validate none of them;
\* NUMERIC(5,2) keeps any percentage between -999.99 and 999.99.
BasePrices == {5000, 10000}
DiscountPercentages == {NoneNum, -1000, 0, 1000}
DiscountPrices == {NoneNum, 3000, 9000}
WindowBounds == {NoneNum, 1, 3}
PriceTimes == {2}

\* ProductService.update: every field that is sent is assigned as it is.
update(product, discount_percentage, discount_price, discount_valid_from, discount_valid_until) ==
    [product EXCEPT
        !.discount_percentage = IF discount_percentage # NoneNum
                                THEN StoreNumeric(discount_percentage) ELSE @,
        !.discount_price = IF discount_price # NoneNum
                           THEN StoreNumeric(discount_price) ELSE @,
        !.discount_valid_from = IF discount_valid_from # NoneNum
                                THEN discount_valid_from ELSE @,
        !.discount_valid_until = IF discount_valid_until # NoneNum
                                 THEN discount_valid_until ELSE @]

\* An admin edits the discount fields of a product; the call returns the row.
UpdateProduct ==
    \E price \in BasePrices, pct \in DiscountPercentages, dp \in DiscountPrices,
       from \in WindowBounds, until \in WindowBounds :
        /\ result' = [op |-> "update", ok |-> TRUE, error |-> "", order |-> 0,
                      args |-> [product |-> update([Product["p3"] EXCEPT !.price = price],
                                                   pct, dp, from, until),
                                now |-> 0, price |-> NoneNum]]
        /\ UNCHANGED <<store, calls, sessions>>

\* The catalog prices the product that was last written.
GetDiscountedPrice ==
    /\ result.op \in {"update", "get_discounted_price"}
    /\ \E now \in PriceTimes :
        result' = [result EXCEPT
            !.op = "get_discounted_price",
            !.args = [product |-> result.args.product, now |-> now,
                      price |-> get_discounted_price(result.args.product, now)]]
    /\ UNCHANGED <<store, calls, sessions>>

NextPrice == UpdateProduct \/ GetDiscountedPrice
SpecPrice == Init /\ [][NextPrice]_vars

\* ------------------------------------------------------- delivery estimate
\* What the delivery API answers one tier's request: 200 with an offer of
\* the tier at a price, 200 without offers, a non-200 status, or no answer
\* within the timeout.
TierPrices == {2000, 3000}
TierAnswers ==
    [kind : {"offer"}, price : TierPrices] \cup
    [kind : {"no_offers", "non_200", "timeout"}, price : {0}]

\* DeliveryService.calculate_delivery_cost for one tier: the offers of a 200
\* answer, ValueError for a non-200 answer or a timeout.
calculate_delivery_cost(answer) ==
    IF answer.kind \in {"non_200", "timeout"}
    THEN [error |-> "ValueError", offers |-> <<>>]
    ELSE [error |-> "", offers |-> IF answer.kind = "offer" THEN <<answer.price>> ELSE <<>>]

\* One turn of the loop over the tiers: the exception of a tier is logged
\* and the loop continues.
collect_offers(all_offers, answer) ==
    IF calculate_delivery_cost(answer).error # "" THEN all_offers
    ELSE all_offers \o calculate_delivery_cost(answer).offers

\* The first offer after the sort by price.
cheapest_offer(all_offers) ==
    all_offers[CHOOSE i \in DOMAIN all_offers :
                  \A j \in DOMAIN all_offers :
                      all_offers[i] < all_offers[j] \/ (all_offers[i] = all_offers[j] /\ i <= j)]

\* The delivery block with every exception of a tier reaching the outer
\* handler.
delivery_cost_abort(courier, express, estimation) ==
    IF estimation # "" THEN 0
    ELSE IF calculate_delivery_cost(courier).error # "" THEN 0
    ELSE IF calculate_delivery_cost(express).error # "" THEN 0
    ELSE IF collect_offers(collect_offers(<<>>, courier), express) = <<>> THEN 0
    ELSE cheapest_offer(collect_offers(collect_offers(<<>>, courier), express))

\* The delivery block of create_order (lines 126-239) when it runs: the
\* price of the cheapest offer collected from the tiers "courier" and
\* "express", 0 when none was collected, and 0 when an exception (estimation)
\* reaches the outer handler.
delivery_cost(courier, express, estimation) ==
    IF estimation # "" THEN 0
    ELSE IF collect_offers(collect_offers(<<>>, courier), express) = <<>> THEN 0
    ELSE cheapest_offer(collect_offers(collect_offers(<<>>, courier), express))

\* create_order of a delivery to an address, with the answers its delivery
\* estimation gets.
create_order_quoted(slug, items, customer_address, courier, express, estimation, user, code, points, now) ==
    finish_create_order(
        create_order_plan(slug, items, "delivery", customer_address,
                          delivery_cost(courier, express, estimation), user,
                          code, points, now, stock, uses_count, usages, accounts),
        [NoArgs EXCEPT !.user = user, !.points = points,
                       !.tiers = <<courier, express, estimation>>])

\* The estimation either runs to its end or raises outside the loop over the
\* tiers (geocoding and the tiers' own failures are caught inside).
Estimations ==
    {<<c, e, "">> : c \in TierAnswers, e \in TierAnswers} \cup
    {<<[kind |-> "offer", price |-> 2000], [kind |-> "offer", price |-> 3000], "TypeError">>}

CreateOrderQuoted ==
    /\ calls < MaxCalls
    /\ Len(orders) < MaxOrders
    /\ \E t \in Estimations, now \in Times :
          create_order_quoted("shop", <<Line("p3", 1)>>, "addr", t[1], t[2], t[3],
                              None, None, 0, now)

\* Pickup, or delivery requested without an address: the delivery block is
\* skipped.
Unquoted == {<<"pickup", None, 0>>, <<"delivery", None, 0>>}

CreateOrderUnquoted ==
    CreateOrderWith(Slugs, {<<Line("p3", 1)>>}, Unquoted, {None}, {None}, {0})

NextDelivery == CreateOrderQuoted \/ CreateOrderUnquoted
SpecDelivery == Init /\ [][NextDelivery]_vars

\* Concurrent accruals: orders of one user are marked paid, one after the
\* other or in sessions that overlap.
BeginUpdateStatusPaid ==
    /\ calls < MaxCalls + 1
    /\ \E s \in Sessions, order_id \in 1..MaxOrders :
          begin_update_status(s, order_id, None, "paid")

NextAwards == CreateOrderUser \/ BeginUpdateStatusPaid \/ EndUpdateStatus

SpecAwards == Init /\ [][NextAwards]_vars

\* ------------------------------------------------- create_order step by step
\* create_order of a delivery to an address, statement by statement, for a
\* guest cart of one untracked product. The AsyncSession begins its
\* transaction with the first statement it executes (autocommit=False) and
\* keeps it until commit; pc is the statement the call is at, and a pc in
\* InFlight means an external HTTP request is awaiting its answer.
InFlight == {"geocoding", "quoting_courier", "quoting_express"}
StepAnswers == {[kind |-> "offer", price |-> 2000], [kind |-> "timeout", price |-> 0]}
NoAnswer == [kind |-> "none", price |-> 0]

At(s, pc, transaction, courier, express) ==
    sessions' = [sessions EXCEPT ![s] = [pc |-> pc, transaction |-> transaction,
                                         courier |-> courier, express |-> express]]

\* Lines 39-45: SELECT of the business, the first statement of the session.
select_business(s) ==
    /\ sessions[s].pc = "idle"
    /\ calls < MaxCalls
    /\ Len(orders) < MaxOrders
    /\ calls' = calls + 1
    /\ At(s, "select_products", TRUE, NoAnswer, NoAnswer)
    /\ UNCHANGED <<store, result>>

\* Lines 51-124: SELECT of every product of the cart.
select_products(s) ==
    /\ sessions[s].pc = "select_products"
    /\ At(s, "geocode", sessions[s].transaction, NoAnswer, NoAnswer)
    /\ UNCHANGED <<store, result, calls>>

\* Lines 149-154: the request to the geocoder is sent.
send_geocode(s) ==
    /\ sessions[s].pc = "geocode"
    /\ At(s, "geocoding", sessions[s].transaction, NoAnswer, NoAnswer)
    /\ UNCHANGED <<store, result, calls>>

\* Lines 154-158: the geocoder answered or failed; either way the call goes on.
receive_geocode(s) ==
    /\ sessions[s].pc = "geocoding"
    /\ At(s, "quote_courier", sessions[s].transaction, NoAnswer, NoAnswer)
    /\ UNCHANGED <<store, result, calls>>

\* Lines 194-201: the quote request of a tier is sent.
send_quote(s) ==
    /\ sessions[s].pc \in {"quote_courier", "quote_express"}
    /\ At(s, IF sessions[s].pc = "quote_courier" THEN "quoting_courier" ELSE "quoting_express",
          sessions[s].transaction, sessions[s].courier, sessions[s].express)
    /\ UNCHANGED <<store, result, calls>>

\* Lines 203-210: the tier's answer, or its timeout after 30 seconds.
receive_quote(s, answer) ==
    /\ sessions[s].pc \in {"quoting_courier", "quoting_express"}
    /\ IF sessions[s].pc = "quoting_courier"
       THEN At(s, "quote_express", sessions[s].transaction, answer, NoAnswer)
       ELSE At(s, "persist", sessions[s].transaction, sessions[s].courier, answer)
    /\ UNCHANGED <<store, result, calls>>

\* Lines 212-387: the cost of the cheapest offer, the discounts, the INSERTs
\* and the commit, which ends the transaction.
persist_order(s) ==
    /\ sessions[s].pc = "persist"
    /\ sessions' = [sessions EXCEPT ![s] = Idle]
    /\ commit_order(create_order_plan("shop", <<Line("p3", 1)>>, "delivery", "addr",
                                      delivery_cost(sessions[s].courier, sessions[s].express, ""),
                                      None, None, 0, 1, stock, uses_count, usages, accounts))
    /\ result' = Response("create_order", "", Len(orders) + 1,
                          [NoArgs EXCEPT !.tiers = <<sessions[s].courier, sessions[s].express, "">>])
    /\ UNCHANGED calls

SelectBusiness == \E s \in Sessions : select_business(s)
SelectProducts == \E s \in Sessions : select_products(s)
SendGeocode == \E s \in Sessions : send_geocode(s)
ReceiveGeocode == \E s \in Sessions : receive_geocode(s)
SendQuote == \E s \in Sessions : send_quote(s)
ReceiveQuote == \E s \in Sessions, answer \in StepAnswers : receive_quote(s, answer)
PersistOrder == \E s \in Sessions : persist_order(s)

NextSteps ==
    \/ SelectBusiness \/ SelectProducts \/ SendGeocode \/ ReceiveGeocode
    \/ SendQuote \/ ReceiveQuote \/ PersistOrder

SpecSteps == Init /\ [][NextSteps]_vars

\* ============================================================== properties
\* Quantity of product p over the line items of an order.
Qty(items, p) ==
    SumSeq([i \in DOMAIN items |-> IF items[i].product_id = p THEN items[i].quantity ELSE 0])

RECURSIVE TotalQty(_, _)
TotalQty(p, n) == IF n = 0 THEN 0 ELSE Qty(orders[n].items, p) + TotalQty(p, n - 1)

Balance(u) == IF u \in Users /\ accounts[u].exists THEN accounts[u].points_balance ELSE 0

\* C1: a create_order call that fails after the business lookup (unknown or
\* inactive product, insufficient stock, rejected promocode, loyalty spend
\* above the balance, or any other error) commits nothing: orders, usage
\* rows, uses_count, accounts, ledger and stock keep their values.
C1_FailedCheckoutPersistsNothing ==
    [][(calls' # calls /\ result'.op = "create_order"
        /\ result'.error \notin {"", "business_not_found"})
       => UNCHANGED store]_vars

\* A checkout rejected for insufficient points by a user who has an account
\* with a positive balance and an earlier order.
C1_Witness ==
    /\ result.op = "create_order"
    /\ result.error = "insufficient_points"
    /\ Len(orders) > 0
    /\ accounts["u1"].exists
    /\ accounts["u1"].points_balance > 0

\* C2: the committed orders of one user with one promocode never exceed the
\* promocode's max_uses_per_user, whatever the interleaving of the sessions.
C2_PerUserCap ==
    \A c \in Promocodes, u \in Users :
        Promocode[c].max_uses_per_user # NoneNum =>
            Cardinality({o \in DOMAIN orders : orders[o].promocode = c /\ orders[o].user = u})
                <= Promocode[c].max_uses_per_user

\* C3: an order never has more than one 'earned' LoyaltyTransaction; an
\* accrual attempted for an order that already has one changes neither the
\* ledger nor the account, and the accrual that adds it raises points_balance
\* and total_earned by the order's loyalty_points_earned.
C3_AtMostOneEarned ==
    \A o \in DOMAIN orders : Cardinality(earned_rows(ledger, o)) <= 1

C3_AwardOnce ==
    /\ []C3_AtMostOneEarned
    /\ [][\A o \in DOMAIN orders :
            (calls' # calls /\ result'.order = o /\ result'.args.award # None)
            => IF earned_rows(ledger, o) # {}
               THEN ledger' = ledger /\ accounts' = accounts
               ELSE earned_rows(ledger', o) # {}
                    => LET u == orders[o].user
                       IN  /\ accounts'[u].points_balance =
                                 Balance(u) + orders[o].loyalty_points_earned
                           /\ accounts'[u].total_earned =
                                 (IF accounts[u].exists THEN accounts[u].total_earned ELSE 0)
                                 + orders[o].loyalty_points_earned]_vars

\* payment_status set to paid again on an order whose points were awarded:
\* award_loyalty_points ran and returned False.
C3_Witness ==
    /\ result.op = "update_status"
    /\ result.args.payment_status = "paid"
    /\ result.args.award = "false"
    /\ result.order \in DOMAIN orders
    /\ orders[result.order].loyalty_points_earned > 0
    /\ earned_rows(ledger, result.order) # {}

\* C4: with no cancellation at all, no order's quantity is taken from a
\* product's stock more than once: the stock never falls below the initial
\* stock minus the quantities of all orders.
C4_NoDoubleDeduction ==
    \A p \in Tracked : stock[p] >= InitStock[p] - TotalQty(p, Len(orders))

\* C5: the acceptance of an order takes each line quantity from the tracked
\* products' stock, and cancelling the accepted order (cancel_order or
\* update_status) adds exactly these quantities back.
C5_CancelRestoresAcceptance ==
    [][\A o \in DOMAIN orders :
        /\ (orders[o].status # "accepted" /\ orders'[o].status = "accepted")
           => \A p \in Tracked : stock'[p] = stock[p] - Qty(orders[o].items, p)
        /\ (orders[o].status = "accepted" /\ orders'[o].status = "cancelled")
           => \A p \in Tracked : stock'[p] = stock[p] + Qty(orders[o].items, p)]_vars

\* cancel_order on an accepted order with tracked products, the stock back
\* at its value before the acceptance.
C5_Witness ==
    /\ result.op = "cancel_order"
    /\ result.ok
    /\ result.args.old_status = "accepted"
    /\ \E p \in Tracked : Qty(orders[result.order].items, p) > 0
    /\ stock = InitStock

\* An item of the order whose tracked product has less stock than the item needs.
Short(items, stk) ==
    \E i \in DOMAIN items :
        items[i].product_id \in Tracked /\ stk[items[i].product_id] < items[i].quantity

\* C6: update_status(status = 'accepted') on a not yet accepted order with a
\* line item short of stock fails with the insufficient-stock error and
\* leaves the orders and every product's stock as they were.
C6_FailedAcceptanceChangesNothing ==
    [][\A o \in DOMAIN orders :
        (/\ calls' # calls
         /\ result'.op = "update_status"
         /\ result'.order = o
         /\ result'.args.status = "accepted"
         /\ orders[o].status # "accepted"
         /\ Short(orders[o].items, stock))
        => (result'.error = "insufficient_stock" /\ UNCHANGED <<stock, orders>>)]_vars

\* A rejected acceptance of an order whose first line could be deducted and a
\* later line could not.
C6_Witness ==
    /\ result.op = "update_status"
    /\ result.error = "insufficient_stock"
    /\ LET items == orders[result.order].items
       IN  /\ Len(items) > 1
           /\ items[1].product_id \in Tracked
           /\ stock[items[1].product_id] >= items[1].quantity
           /\ Short(items, stock)

Chain == {<<"new", "accepted">>, <<"accepted", "preparing">>, <<"preparing", "ready">>,
          <<"ready", "completed">>}
Cancellations == {<<"new", "cancelled">>, <<"accepted", "cancelled">>}

\* C7: update_status changes an order's status only to the next step of the
\* chain new, accepted, preparing, ready, completed (or cancels it from new
\* or accepted).
C7_AdjacentTransitionsOnly ==
    [][\A o \in DOMAIN orders :
        (result'.op = "update_status" /\ orders'[o].status # orders[o].status)
        => <<orders[o].status, orders'[o].status>> \in Chain \cup Cancellations]_vars

\* C8: an order becomes cancelled only from new or accepted.
C8_CancelOnlyFromNewOrAccepted ==
    [][\A o \in DOMAIN orders :
        (orders'[o].status = "cancelled" /\ orders[o].status # "cancelled")
        => orders[o].status \in {"new", "accepted"}]_vars

\* C9: every LoyaltyAccount row has points_balance = total_earned -
\* total_spent and points_balance >= 0.
C9_BalanceInvariant ==
    \A u \in Users :
        /\ accounts[u].points_balance = accounts[u].total_earned - accounts[u].total_spent
        /\ accounts[u].points_balance >= 0

\* C10: a checkout that reaches spend_points with more points than the
\* account's balance is rejected for insufficient points and leaves the
\* accounts, the ledger and the orders unchanged.
C10_OverspendRejected ==
    [][(/\ calls' # calls
        /\ result'.op = "create_order"
        /\ result'.args.user \in Users
        /\ result'.args.points > 0
        /\ result'.args.points > Balance(result'.args.user)
        /\ result'.error \in {"", "insufficient_points"})
       => (/\ result'.error = "insufficient_points"
           /\ UNCHANGED <<accounts, ledger, orders>>)]_vars

\* A spend request above a positive balance, rejected, the balance in place.
C10_Witness ==
    /\ result.op = "create_order"
    /\ result.error = "insufficient_points"
    /\ result.args.user \in Users
    /\ Balance(result.args.user) > 0
    /\ result.args.points > Balance(result.args.user)
    /\ \E i \in DOMAIN ledger : ledger[i].balance_after = Balance(result.args.user)

\* The promocode discount of a persisted order.
PromocodeDiscount(o) ==
    IF o.promocode = None THEN 0 ELSE calculate_discount(Promocode[o.promocode], o.subtotal_amount)

\* The last call was a create_order that persisted an order.
Created == result.op = "create_order" /\ result.ok /\ result.order \in DOMAIN orders

\* C11: every persisted order has total_amount = max(0, subtotal_amount -
\* discount_amount) and discount_amount >= 0, whatever loyalty_points_to_spend
\* the client submitted.
C11_TotalAndDiscount ==
    \A o \in DOMAIN orders :
        /\ orders[o].total_amount = Max(0, orders[o].subtotal_amount - orders[o].discount_amount)
        /\ orders[o].discount_amount >= 0

\* C12: the loyalty discount create_order applies (total_discount minus the
\* promocode discount) is at most 0.90 x (subtotal_amount - promocode
\* discount), whatever number of points was requested.
C12_LoyaltyCap ==
    (Created /\ result.args.points # 0 /\ result.args.user # None)
    => LET o == orders[result.order]
       IN  10 * (result.args.discount - PromocodeDiscount(o))
               <= 9 * (o.subtotal_amount - PromocodeDiscount(o))

\* An order created with more points requested than 90 % of what the
\* promocode left: the loyalty discount is exactly the cap.
C12_Witness ==
    /\ Created
    /\ result.args.user # None
    /\ orders[result.order].promocode # None
    /\ LET o == orders[result.order]
       IN  /\ 10 * result.args.points > 9 * (o.subtotal_amount - PromocodeDiscount(o))
           /\ 10 * (result.args.discount - PromocodeDiscount(o))
                  = 9 * (o.subtotal_amount - PromocodeDiscount(o))

\* C13: the points create_order debits and stores as loyalty_points_spent
\* are the clamped redemption: never more than the loyalty discount granted
\* on the order.
C13_DebitIsClamped ==
    (Created /\ result.args.points > 0 /\ result.args.user # None)
    => LET o == orders[result.order]
       IN  o.loyalty_points_spent <= result.args.discount - PromocodeDiscount(o)

\* PromocodeUsage rows of a promocode.
UsagesOf(c) == {u \in usages : u.promocode = c}

\* C14: a promocode with max_uses set has uses_count <= max_uses in every
\* reachable state, concurrent create_order calls included.
C14_UsesCountBounded ==
    \A c \in Promocodes : Promocode[c].max_uses # NoneNum => uses_count[c] <= Promocode[c].max_uses

\* Two checkouts with the limited promocode ran concurrently and both
\* committed.
C14_Witness ==
    /\ Cardinality({o \in DOMAIN orders : orders[o].promocode = "ONCE"}) > 1
    /\ uses_count["ONCE"] = Promocode["ONCE"].max_uses
    /\ \A s \in Sessions : sessions[s].pc = "idle"

\* C15: each promocode's uses_count equals the number of its PromocodeUsage
\* rows, and the usage rows of a promocode correspond one to one to the
\* orders that carry it.
C15_UsesCountIsUsageRows ==
    \A c \in Promocodes :
        /\ uses_count[c] = Cardinality(UsagesOf(c))
        /\ \A o \in DOMAIN orders :
              orders[o].promocode = c => Cardinality({u \in UsagesOf(c) : u.order_id = o}) = 1
        /\ \A u \in UsagesOf(c) : u.order_id \in DOMAIN orders /\ orders[u.order_id].promocode = c

PaymentTransitions == {<<"pending", "paid">>, <<"pending", "failed">>,
                       <<"paid", "refunded">>, <<"failed", "refunded">>}

\* C16: through update_status and the payment webhook an order's
\* payment_status changes only along pending to paid, pending to failed,
\* paid to refunded and failed to refunded.
C16_PaymentStatusMachine ==
    [][\A o \in DOMAIN orders :
        orders'[o].payment_status # orders[o].payment_status
        => <<orders[o].payment_status, orders'[o].payment_status>> \in PaymentTransitions]_vars

\* A session of update_status commits in this step.
UpdateCommits == \E s \in Sessions : sessions[s].pc = "updating" /\ sessions'[s].pc = "idle"

\* C17: when update_status moves payment_status to 'paid' and the loyalty
\* accrual raises, the call still returns normally and the order is
\* committed with payment_status 'paid'.
C17_AccrualFailureSwallowed ==
    [][(/\ UpdateCommits
        /\ result'.op = "update_status"
        /\ result'.args.payment_status = "paid"
        /\ result'.args.award = "error")
       => (result'.ok /\ orders'[result'.order].payment_status = "paid")]_vars

RECURSIVE AcceptedQty(_, _)
AcceptedQty(p, n) ==
    IF n = 0 THEN 0
    ELSE (IF orders[n].status = "accepted" THEN Qty(orders[n].items, p) ELSE 0)
         + AcceptedQty(p, n - 1)

\* C20: with acceptances of different orders running in concurrent sessions,
\* the committed stock of every tracked product is the initial stock minus
\* the quantities of the orders whose acceptance committed.
C20_NoLostStockUpdate ==
    \A p \in Tracked : stock[p] = InitStock[p] - AcceptedQty(p, Len(orders))

\* C18: for every product row a catalog edit can store, get_discounted_price
\* returns at most the base price, and exactly the base price when no
\* discount is configured or the time is outside the validity window.
C18_DiscountedPriceBounded ==
    result.op = "get_discounted_price" =>
        LET product == result.args.product
            now == result.args.now
            inactive ==
                \/ (product.discount_percentage = NoneNum /\ product.discount_price = NoneNum)
                \/ (product.discount_valid_from # NoneNum /\ now < product.discount_valid_from)
                \/ (product.discount_valid_until # NoneNum /\ now > product.discount_valid_until)
        IN  /\ result.args.price <= product.price
            /\ inactive => result.args.price = product.price

\* The offers the tiers of an estimation answered with.
OfferedPrices(tiers) ==
    {tiers[i].price : i \in {i \in {1, 2} : tiers[i].kind = "offer"}}

\* C19: when create_order estimates a delivery, a tier that fails does not
\* keep the offer of the other tier from being used, and with no offer at all
\* or a failed estimation the order is still created, with delivery cost 0.
C19_DeliveryEstimateAdvisory ==
    (result.op = "create_order" /\ Len(result.args.tiers) = 3) =>
        LET tiers == result.args.tiers
            offered == OfferedPrices(tiers)
            order == orders[result.order]
            cost == order.subtotal_amount - SumSeq([i \in DOMAIN order.items |->
                                                       order.items[i].total_price])
        IN  /\ result.ok
            /\ result.order = Len(orders)
            /\ (tiers[3] # "" \/ offered = {}) => cost = 0
            /\ (tiers[3] = "" /\ offered # {}) =>
                   (cost \in offered /\ \A x \in offered : cost <= x)

\* One tier failed and the offer of the other one was charged.
C19_Witness ==
    /\ result.op = "create_order" /\ result.ok
    /\ Len(result.args.tiers) = 3
    /\ result.args.tiers[1].kind \in {"non_200", "timeout"}
    /\ result.args.tiers[2].kind = "offer"
    /\ orders[result.order].subtotal_amount = 5000 + result.args.tiers[2].price

\* Points of the user's 'earned' rows among the first n ledger rows.
RECURSIVE EarnedPoints(_, _)
EarnedPoints(u, n) ==
    IF n = 0 THEN 0
    ELSE EarnedPoints(u, n - 1) +
         (IF ledger[n].user = u /\ ledger[n].transaction_type = "earned"
          THEN ledger[n].points ELSE 0)

\* loyalty_points_spent over the user's orders among the first n orders.
RECURSIVE SpentByOrders(_, _)
SpentByOrders(u, n) ==
    IF n = 0 THEN 0
    ELSE SpentByOrders(u, n - 1) +
         (IF orders[n].user = u THEN orders[n].loyalty_points_spent ELSE 0)

\* C21: whatever the interleaving of concurrent checkouts of one user that
\* spend points, the committed balance is what the user earned minus the
\* points spent by the committed orders, and is never negative (so two
\* orders whose combined spend exceeds the balance do not both commit).
C21_PointsNotSpentTwice ==
    \A u \in Users :
        /\ Balance(u) = EarnedPoints(u, Len(ledger)) - SpentByOrders(u, Len(orders))
        /\ Balance(u) >= 0

\* C22: when accruals for the same order run in concurrent sessions, one
\* 'earned' LoyaltyTransaction for the order is committed: no order has two
\* 'earned' rows.
C22_ConcurrentAwardOnce ==
    \A o \in DOMAIN orders :
        Cardinality({i \in DOMAIN ledger : /\ ledger[i].order_id = o
                                           /\ ledger[i].transaction_type = "earned"}) <= 1

\* C23: cancelling an order that is still 'new' leaves every product's
\* stock_quantity unchanged (stock is restored only for an order that had
\* been accepted).
C23_CancelNewKeepsStock ==
    [][\A o \in DOMAIN orders :
        (orders[o].status = "new" /\ orders'[o].status = "cancelled") => stock' = stock]_vars

\* C24: with no catalog edits, after any sequence of create_order,
\* update_status and cancel_order calls every tracked product has
\* 0 <= stock_quantity <= its initial stock.
C24_StockWithinInitial ==
    \A p \in Tracked : stock[p] >= 0 /\ stock[p] <= InitStock[p]

\* C25: create_order of a valid cart with no delivery to quote (pickup, or
\* delivery without an address) runs to completion: the order is committed
\* with delivery cost 0.
C25_UnquotedOrderCommits ==
    (result.op = "create_order" /\ result.args.tiers = <<>>) =>
        /\ result.ok
        /\ result.order = Len(orders)
        /\ orders[result.order].subtotal_amount =
               SumSeq([i \in DOMAIN orders[result.order].items |->
                          orders[result.order].items[i].total_price])

\* C26: create_order rejects a cart line whose quantity is zero or negative:
\* every persisted OrderItem has quantity >= 1 and total_price >= 0.
C26_PositiveQuantities ==
    \A o \in DOMAIN orders : \A i \in DOMAIN orders[o].items :
        orders[o].items[i].quantity >= 1 /\ orders[o].items[i].total_price >= 0

\* The unit price the catalog gives a request line: the discounted base
\* price plus the deltas of the selected options the schema knows.
ExpectedUnitPrice(line, now) ==
    get_discounted_price(Product[line.product_id], now)
    + (IF line.selected_variations = <<>> \/ Product[line.product_id].variations = <<>>
       THEN 0
       ELSE variation_delta(Product[line.product_id].variations, line.selected_variations,
                            DOMAIN line.selected_variations))

\* C27: an order placed through POST /{business_slug}/orders with
\* selected_variations on a line persists, for every line, a unit_price equal
\* to the discounted base price plus the delta of every selected option that
\* the product's variation schema lists with a numeric delta.
C27_VariationsPriced ==
    (result.op = "create_order" /\ result.ok /\ "request_items" \in DOMAIN result.args) =>
        \A i \in DOMAIN result.args.request_items :
            orders[result.order].items[i].unit_price
                = StoreNumeric(ExpectedUnitPrice(result.args.request_items[i], 1))

\* C28: for an identified user and total_amount > 0 the points an order earns
\* are total_amount x p / 100 rounded to 2 decimals for every allowed
\* loyalty_points_percent p from 0 to 100; with p = 0 no points are earned.
C28_PointsEarnedByPercent ==
    (result.op = "points_earned" /\ result.args.user # None /\ result.args.total_amount > 0) =>
        result.args.earned = Quantize(result.args.total_amount * result.args.percent, 10000)

\* C29: delete_old_orders commits and removes every eligible order (status
\* cancelled or completed, updated before the cutoff), also when the order
\* has a PromocodeUsage, LoyaltyTransaction or Payment row, and leaves every
\* other order and its line items untouched.
C29_RetentionSweepCommits ==
    [][(calls' # calls /\ result'.op = "delete_old_orders") =>
         /\ result'.ok
         /\ \A o \in DOMAIN orders :
               IF o \in result'.args.orders_to_delete
               THEN orders'[o].status = "deleted" /\ orders'[o].items = <<>>
               ELSE orders'[o] = orders[o]]_vars

\* C30: in create_order no database transaction is open while a geocoder or
\* delivery-quote request is in flight.
C30_NoTransactionDuringNetworkCall ==
    \A s \in Sessions : sessions[s].pc \in InFlight => ~sessions[s].transaction

====
